---- MODULE Spec2Model ----
(***************************************************************************)
(* Model of the camera streaming pipeline of mindwell-ai                   *)
(* (frontend/js/camera.js, class CameraManager): the capture controller    *)
(* (startCamera / stopCamera / the sendFrame timer loop), the WebSocket    *)
(* channel with its event handlers, the emotion aggregator                 *)
(* (handleEmotionData / storeEmotion / updateTodayEmotions), the           *)
(* recommendation lookups (updateRecommendations) and the one-shot         *)
(* capture path (captureMood / saveMoodEntry).                             *)
(*                                                                         *)
(* JavaScript runs the handlers one at a time on the event loop, so every  *)
(* action below is one whole task: a click handler, a promise              *)
(* continuation, a timer callback or a WebSocket event.                    *)
(***************************************************************************)
EXTENDS Integers, Sequences, FiniteSets, TLC

\* ------------------------------------------------------------------------
\* Bounds of the model
\* ------------------------------------------------------------------------
MaxStarts == 2      \* calls of startCamera() in one run
MaxFrames == 2      \* frames sent over the WebSocket in one run
MaxMsgs == 2        \* inbound WebSocket messages in one run
MaxNow == 1         \* last value of the wall clock in the controller runs
MaxCaptures == 1    \* captureMood() calls that pass the precondition in one run
MaxRecords == 105   \* storeEmotion() calls in one aggregator run
ScriptLen == 2      \* period of the input script of an aggregator run
DayLen == 2         \* clock units per calendar day

\* ------------------------------------------------------------------------
\* Program constants
\* ------------------------------------------------------------------------
MaxHistory == 100   \* "Keep only last 100 emotions"

VARIABLES
    stream,            \* this.stream: NoStream (null) or the id of a MediaStream
    isStreaming,       \* this.isStreaming
    wsState,           \* this.ws.readyState
    detectedEmotions,  \* this.detectedEmotions
    acquiring,         \* getUserMedia() promises not yet settled (ids of the calls)
    starts,            \* number of startCamera() calls so far
    live,              \* MediaStreams whose tracks have not been stopped
    timers,            \* pending setTimeout(sendFrame, 100) callbacks
    framesSent,        \* frames handed to ws.send()
    cameraUI,          \* last state passed to updateCameraUI
    cameraErrors,      \* messages shown by showCameraError
    displayEmotion,    \* textContent of #detected-emotion
    todayCounts,       \* emotionCounts rendered into #today-emotions
    lookups,           \* labels of the recommendation requests issued
    pendingLookups,    \* recommendation requests not yet settled (indices of lookups)
    recommendations,   \* label whose recommendations #emotion-recommendations shows
    hasEmotionElement, \* whether the page has the #detected-emotion element
    now,               \* wall clock (new Date())
    arrived,           \* inbound messages received by the browser
    uncaught,          \* exceptions that escaped the onmessage handler
    recorded,          \* history: every event storeEmotion was given, in order
    staleAcq,          \* history: pending getUserMedia() calls that saw a stopCamera()
    staleTimers,       \* history: pending sendFrame timers that saw a stopCamera()
    script,            \* input of an aggregator run: the events to record, cyclically
    captures,          \* captureMood() calls past the precondition: where each one is
    classifyReqs,      \* POST /analyze-emotion requests issued
    submissions,       \* bodies of the POST /mood-entry requests issued
    notifications,     \* notifications shown through mindWellApp.showNotification
    unhandled,         \* promise rejections nobody handles
    currentSection,    \* mindWellApp.currentSection
    dashboardRefreshes \* loadDashboard() calls made by saveMoodEntry

vars == << stream, isStreaming, wsState, detectedEmotions, acquiring, starts,
           live, timers, framesSent, cameraUI, cameraErrors, displayEmotion,
           todayCounts, lookups, pendingLookups, recommendations,
           hasEmotionElement, now, arrived, uncaught,
           recorded, staleAcq, staleTimers, script, captures, classifyReqs,
           submissions, notifications, unhandled, currentSection,
           dashboardRefreshes >>

ctlVars == << stream, isStreaming, acquiring, starts, live, timers, framesSent,
              cameraUI, cameraErrors, staleAcq, staleTimers >>
aggVars == << detectedEmotions, todayCounts, recorded >>
msgVars == << displayEmotion, lookups, arrived, uncaught, pendingLookups,
              recommendations >>
envVars == << hasEmotionElement, script >>
capVars == << captures, classifyReqs, submissions, notifications, unhandled,
              currentSection, dashboardRefreshes >>

NoStream == 0

\* ------------------------------------------------------------------------
\* JavaScript values that can stand in the emotion field of a message
\* ------------------------------------------------------------------------
JsString(s) == [type |-> "string", str |-> s]
JsUndefined == [type |-> "undefined", str |-> "undefined"]
JsNumber42 == [type |-> "number", str |-> "42"]

\* ToPropertyKey / String(v): the key under which a value indexes an object
ToKey(v) == v.str

\* The closed label set: the keys of iconMap and emojiMap
EmotionLabel == {"Happy", "Sad", "Angry", "Fear", "Surprise", "Neutral", "Disgust"}

\* Inbound messages {emotion, confidence}; confidence in hundredths
Msgs ==
    { [emotion |-> JsString("Happy"), confidence |-> 90],
      [emotion |-> JsString("Sad"), confidence |-> 40],
      [emotion |-> JsString("Bored"), confidence |-> 150],
      [emotion |-> JsUndefined, confidence |-> 90],
      [emotion |-> JsNumber42, confidence |-> -20] }

\* ------------------------------------------------------------------------
\* Dates
\* ------------------------------------------------------------------------
\* Offset of local time to UTC: local midnight is not UTC midnight
TzOffset == DayLen - 1

\* Date.prototype.toISOString: the UTC calendar fields of an instant
toISOString(t) == [date |-> t \div DayLen, time |-> t % DayLen]

\* new Date(isoString): the instant of a UTC timestamp
DateParse(iso) == iso.date * DayLen + iso.time

\* Date.prototype.toDateString: the local calendar day of an instant
toDateString(t) == (t + TzOffset) \div DayLen

\* ------------------------------------------------------------------------
\* Aggregator
\* ------------------------------------------------------------------------
EmptyCounts == [k \in {} |-> 0]

\* if (this.detectedEmotions.length > 100) this.detectedEmotions.shift()
EvictNewest(buf) ==
    IF Len(buf) > MaxHistory THEN SubSeq(buf, 1, Len(buf) - 1) ELSE buf

Evict(buf) ==
    IF Len(buf) > MaxHistory THEN Tail(buf) ELSE buf

\* the object storeEmotion pushes
Event(emotion, confidence, t) ==
    [emotion |-> emotion, confidence |-> confidence, timestamp |-> toISOString(t)]

\* storeEmotion up to the call of updateTodayEmotions
storeEmotion(buf, emotion, confidence, t) ==
    Evict(Append(buf, Event(emotion, confidence, t)))

\* a filter that compares the UTC date of the timestamp with the UTC date of
\* today
TodayEmotionsUtc(buf, t) ==
    SelectSeq(buf, LAMBDA e : e.timestamp.date = toISOString(t).date)

\* the filter of updateTodayEmotions
TodayEmotions(buf, t) ==
    SelectSeq(buf, LAMBDA e : toDateString(DateParse(e.timestamp)) = toDateString(t))

\* emotionCounts[e.emotion] = 1 in place of (emotionCounts[e.emotion] || 0) + 1
updateTodayEmotionsNoTally(buf, t) ==
    LET todayEmotions == TodayEmotions(buf, t)
    IN  [k \in { ToKey(todayEmotions[i].emotion) : i \in DOMAIN todayEmotions } |-> 1]

\* updateTodayEmotions: emotionCounts of the entries of today
updateTodayEmotions(buf, t) ==
    LET todayEmotions == TodayEmotions(buf, t)
        keys == { ToKey(todayEmotions[i].emotion) : i \in DOMAIN todayEmotions }
    IN  [k \in keys |->
            Cardinality({ i \in DOMAIN todayEmotions :
                            ToKey(todayEmotions[i].emotion) = k })]

RECURSIVE SumCounts(_)
SumCounts(c) ==
    IF DOMAIN c = {} THEN 0
    ELSE LET k == CHOOSE x \in DOMAIN c : TRUE
         IN  c[k] + SumCounts([x \in DOMAIN c \ {k} |-> c[x]])

CountOf(c, k) == IF k \in DOMAIN c THEN c[k] ELSE 0

\* ------------------------------------------------------------------------
\* Initial state: the state after new CameraManager()
\* ------------------------------------------------------------------------
InitCommon ==
    /\ stream = NoStream
    /\ isStreaming = FALSE
    /\ wsState = "CONNECTING"
    /\ detectedEmotions = << >>
    /\ acquiring = {}
    /\ starts = 0
    /\ live = {}
    /\ timers = 0
    /\ framesSent = 0
    /\ cameraUI = "initial"
    /\ cameraErrors = {}
    /\ displayEmotion = "none"
    /\ todayCounts = EmptyCounts
    /\ lookups = << >>
    /\ pendingLookups = {}
    /\ recommendations = "none"
    /\ hasEmotionElement \in BOOLEAN
    /\ now = 0
    /\ arrived = 0
    /\ uncaught = 0
    /\ recorded = << >>
    /\ staleAcq = {}
    /\ staleTimers = 0
    /\ captures = << >>
    /\ classifyReqs = 0
    /\ submissions = << >>
    /\ notifications = << >>
    /\ unhandled = 0
    /\ currentSection = "dashboard"
    /\ dashboardRefreshes = 0

Init ==
    /\ InitCommon
    /\ script = << >>

\* ------------------------------------------------------------------------
\* Capture controller
\* ------------------------------------------------------------------------
\* startCamera() up to the await: getUserMedia() is requested
startCamera ==
    /\ starts < MaxStarts
    /\ starts' = starts + 1
    /\ acquiring' = acquiring \cup {starts + 1}
    /\ UNCHANGED << stream, isStreaming, live, timers, framesSent, cameraUI,
                    cameraErrors, staleAcq, staleTimers >>
    /\ UNCHANGED << wsState, now >>
    /\ UNCHANGED aggVars
    /\ UNCHANGED msgVars
    /\ UNCHANGED envVars
    /\ UNCHANGED capVars

\* the guard of sendFrame without the readyState test
SendsFrameIgnoresChannel(streaming, ws) == streaming

\* the first call of sendFrame, made by startEmotionDetection, and every
\* later one made by the timer: does this call send a frame?
SendsFrame(streaming, ws) == streaming /\ ws = "OPEN"

\* startCamera() after the await, getUserMedia() resolved with stream id
getUserMediaResolve(id) ==
    /\ id \in acquiring
    /\ SendsFrame(TRUE, wsState) => framesSent < MaxFrames
    /\ acquiring' = acquiring \ {id}
    /\ live' = live \cup {id}
    /\ stream' = id
    /\ isStreaming' = TRUE
    /\ IF SendsFrame(TRUE, wsState)
       THEN /\ framesSent' = framesSent + 1
            /\ timers' = timers + 1
       ELSE UNCHANGED << framesSent, timers >>
    /\ cameraUI' = "started"
    /\ staleAcq' = staleAcq \ {id}
    /\ UNCHANGED << starts, cameraErrors, staleTimers >>
    /\ UNCHANGED << wsState, now >>
    /\ UNCHANGED aggVars
    /\ UNCHANGED msgVars
    /\ UNCHANGED envVars
    /\ UNCHANGED capVars

\* startCamera() after the await, getUserMedia() rejected: the catch block
getUserMediaReject(id) ==
    /\ id \in acquiring
    /\ acquiring' = acquiring \ {id}
    /\ cameraErrors' = cameraErrors \cup {"Unable to access camera"}
    /\ staleAcq' = staleAcq \ {id}
    /\ UNCHANGED << stream, isStreaming, starts, live, timers, framesSent,
                    cameraUI, staleTimers >>
    /\ UNCHANGED << wsState, now >>
    /\ UNCHANGED aggVars
    /\ UNCHANGED msgVars
    /\ UNCHANGED envVars
    /\ UNCHANGED capVars

\* if (this.ws && readyState === OPEN) this.ws.close(), left out
WsAfterStopKeepsOpen(ws) == ws

\* if (this.ws && this.ws.readyState === WebSocket.OPEN) this.ws.close()
WsAfterStop(ws) == IF ws = "OPEN" THEN "CLOSING" ELSE ws

\* a stopCamera() that releases the stream and leaves isStreaming set
stopCameraLeavesFlag ==
    /\ IF stream # NoStream
       THEN /\ live' = live \ {stream}
            /\ stream' = NoStream
       ELSE UNCHANGED << live, stream >>
    /\ UNCHANGED isStreaming
    /\ wsState' = WsAfterStop(wsState)
    /\ cameraUI' = "stopped"
    /\ staleAcq' = staleAcq \cup acquiring
    /\ staleTimers' = timers
    /\ UNCHANGED << acquiring, starts, timers, framesSent, cameraErrors >>
    /\ UNCHANGED now
    /\ UNCHANGED aggVars
    /\ UNCHANGED msgVars
    /\ UNCHANGED envVars
    /\ UNCHANGED capVars

\* stopCamera()
stopCamera ==
    /\ IF stream # NoStream
       THEN /\ live' = live \ {stream}
            /\ stream' = NoStream
            /\ isStreaming' = FALSE
       ELSE UNCHANGED << live, stream, isStreaming >>
    /\ wsState' = WsAfterStop(wsState)
    /\ cameraUI' = "stopped"
    /\ staleAcq' = staleAcq \cup acquiring
    /\ staleTimers' = timers
    /\ UNCHANGED << acquiring, starts, timers, framesSent, cameraErrors >>
    /\ UNCHANGED now
    /\ UNCHANGED aggVars
    /\ UNCHANGED msgVars
    /\ UNCHANGED envVars
    /\ UNCHANGED capVars

\* a setTimeout(sendFrame, 100) callback fires; stale tells whether the
\* timer is one that was pending at a stopCamera()
sendFrame(stale) ==
    /\ IF stale THEN staleTimers > 0 ELSE timers - staleTimers > 0
    /\ SendsFrame(isStreaming, wsState) => framesSent < MaxFrames
    /\ IF SendsFrame(isStreaming, wsState)
       THEN /\ framesSent' = framesSent + 1
            /\ UNCHANGED << timers, staleTimers >>
       ELSE /\ timers' = timers - 1
            /\ staleTimers' = IF stale THEN staleTimers - 1 ELSE staleTimers
            /\ UNCHANGED framesSent
    /\ UNCHANGED << stream, isStreaming, acquiring, starts, live, cameraUI,
                    cameraErrors, staleAcq >>
    /\ UNCHANGED << wsState, now >>
    /\ UNCHANGED aggVars
    /\ UNCHANGED msgVars
    /\ UNCHANGED envVars
    /\ UNCHANGED capVars

\* ------------------------------------------------------------------------
\* WebSocket events
\* ------------------------------------------------------------------------
\* ws.onopen: logs
wsOnOpen ==
    /\ wsState = "CONNECTING"
    /\ wsState' = "OPEN"
    /\ UNCHANGED now
    /\ UNCHANGED ctlVars
    /\ UNCHANGED aggVars
    /\ UNCHANGED msgVars
    /\ UNCHANGED envVars
    /\ UNCHANGED capVars

\* an onclose handler that calls setupWebSocket() again
wsOnCloseReconnects ==
    /\ wsState \in {"CONNECTING", "OPEN", "CLOSING"}
    /\ wsState' = "CONNECTING"
    /\ UNCHANGED now
    /\ UNCHANGED ctlVars
    /\ UNCHANGED aggVars
    /\ UNCHANGED msgVars
    /\ UNCHANGED envVars
    /\ UNCHANGED capVars

\* ws.onerror / ws.onclose: the connection fails, is dropped by the peer, or
\* the closing handshake ends; both handlers only log
wsOnClose ==
    /\ wsState \in {"CONNECTING", "OPEN", "CLOSING"}
    /\ wsState' = "CLOSED"
    /\ UNCHANGED now
    /\ UNCHANGED ctlVars
    /\ UNCHANGED aggVars
    /\ UNCHANGED msgVars
    /\ UNCHANGED envVars
    /\ UNCHANGED capVars

\* updateEmotionDisplay: emotion.toLowerCase() raises a TypeError when the
\* element exists and emotion is not a string
DisplayThrows(emotion) == hasEmotionElement /\ emotion.type # "string"

\* handleEmotionData(data), called by ws.onmessage
handleEmotionData(m) ==
    /\ displayEmotion' = IF hasEmotionElement THEN ToKey(m.emotion) ELSE displayEmotion
    /\ IF DisplayThrows(m.emotion)
       THEN /\ uncaught' = uncaught + 1
            /\ UNCHANGED << detectedEmotions, todayCounts, recorded, lookups,
                            pendingLookups >>
       ELSE /\ detectedEmotions' = storeEmotion(detectedEmotions, m.emotion, m.confidence, now)
            /\ todayCounts' = updateTodayEmotions(detectedEmotions', now)
            /\ recorded' = Append(recorded, Event(m.emotion, m.confidence, now))
            /\ lookups' = Append(lookups, ToKey(m.emotion))
            /\ pendingLookups' = pendingLookups \cup {Len(lookups) + 1}
            /\ UNCHANGED uncaught
    /\ UNCHANGED recommendations

\* a message of the server reaches the browser: the message event is fired
\* only while readyState is OPEN, a message that comes in after close() was
\* called is discarded by the browser
wsOnMessage(m) ==
    /\ wsState \in {"OPEN", "CLOSING"}
    /\ arrived < MaxMsgs
    /\ arrived' = arrived + 1
    /\ IF wsState = "OPEN"
       THEN handleEmotionData(m)
       ELSE UNCHANGED << displayEmotion, uncaught, detectedEmotions,
                         todayCounts, recorded, lookups, pendingLookups,
                         recommendations >>
    /\ UNCHANGED << wsState, now >>
    /\ UNCHANGED ctlVars
    /\ UNCHANGED envVars
    /\ UNCHANGED capVars

\* updateRecommendations after the awaits: the request of lookups[i] is
\* answered; the container is rewritten when the body has recommendations
lookupResolves(i, hasRecommendations) ==
    /\ i \in pendingLookups
    /\ pendingLookups' = pendingLookups \ {i}
    /\ recommendations' = IF hasRecommendations THEN lookups[i] ELSE recommendations
    /\ UNCHANGED << displayEmotion, lookups, arrived, uncaught >>
    /\ UNCHANGED << wsState, now >>
    /\ UNCHANGED ctlVars
    /\ UNCHANGED aggVars
    /\ UNCHANGED envVars
    /\ UNCHANGED capVars

\* the request of lookups[i] fails, or its body is not JSON: the catch logs
lookupFails(i) ==
    /\ i \in pendingLookups
    /\ pendingLookups' = pendingLookups \ {i}
    /\ UNCHANGED << displayEmotion, lookups, arrived, uncaught, recommendations >>
    /\ UNCHANGED << wsState, now >>
    /\ UNCHANGED ctlVars
    /\ UNCHANGED aggVars
    /\ UNCHANGED envVars
    /\ UNCHANGED capVars

\* time passes
Tick ==
    /\ now < MaxNow
    /\ now' = now + 1
    /\ UNCHANGED wsState
    /\ UNCHANGED ctlVars
    /\ UNCHANGED aggVars
    /\ UNCHANGED msgVars
    /\ UNCHANGED envVars
    /\ UNCHANGED capVars

Next ==
    \/ startCamera
    \/ \E id \in 1..MaxStarts : getUserMediaResolve(id)
    \/ \E id \in 1..MaxStarts : getUserMediaReject(id)
    \/ stopCamera
    \/ \E stale \in BOOLEAN : sendFrame(stale)
    \/ wsOnOpen
    \/ wsOnClose
    \/ \E m \in Msgs : wsOnMessage(m)
    \/ \E i \in 1..MaxMsgs, hasRecommendations \in BOOLEAN :
           lookupResolves(i, hasRecommendations)
    \/ \E i \in 1..MaxMsgs : lookupFails(i)
    \/ Tick

Spec == Init /\ [][Next]_vars

\* ------------------------------------------------------------------------
\* Aggregator runs: storeEmotion() called MaxRecords times on scripted input
\* ------------------------------------------------------------------------
\* one script entry: the event to record and the time that passes before it
ScriptEntries == { [msg |-> m, dt |-> d] : m \in Msgs, d \in {0, 1} }

InitRecord ==
    /\ InitCommon
    /\ script \in [1..ScriptLen -> ScriptEntries]

\* storeEmotion(emotion, confidence): time passes, then the next event of
\* the script is recorded
record ==
    /\ Len(recorded) < MaxRecords
    /\ LET entry == script[(Len(recorded) % Len(script)) + 1]
       IN  /\ now' = now + entry.dt
           /\ detectedEmotions' =
                  storeEmotion(detectedEmotions, entry.msg.emotion, entry.msg.confidence, now')
           /\ todayCounts' = updateTodayEmotions(detectedEmotions', now')
           /\ recorded' = Append(recorded, Event(entry.msg.emotion, entry.msg.confidence, now'))
    /\ UNCHANGED wsState
    /\ UNCHANGED ctlVars
    /\ UNCHANGED msgVars
    /\ UNCHANGED envVars
    /\ UNCHANGED capVars

NextRecord == record

SpecRecord == InitRecord /\ [][NextRecord]_vars

\* ------------------------------------------------------------------------
\* One-shot capture: captureMood / saveMoodEntry
\* ------------------------------------------------------------------------
\* a confidence of a classify response, in thousandths; absent when the body
\* has no confidence field
Conf(milli) == [defined |-> TRUE, milli |-> milli]
ConfUndefined == [defined |-> FALSE, milli |-> 0]

\* what POST /analyze-emotion can answer: the status and the parsed body
Responses ==
    { [ok |-> TRUE, emotion |-> JsString("Happy"), confidence |-> Conf(905)],
      [ok |-> TRUE, emotion |-> JsString("Sad"), confidence |-> Conf(1500)],
      [ok |-> TRUE, emotion |-> JsString("Angry"), confidence |-> Conf(-25)],
      [ok |-> FALSE, emotion |-> JsUndefined, confidence |-> ConfUndefined] }

\* Math.round(confidence * 100): half-way cases round up, undefined gives NaN
MathRound100(confidence) ==
    IF confidence.defined
    THEN [nan |-> FALSE, val |-> (confidence.milli + 5) \div 10]
    ELSE [nan |-> TRUE, val |-> 0]

\* the body saveMoodEntry posts
MoodEntry(emotion, confidence, t) ==
    [emotion |-> emotion, intensity |-> MathRound100(confidence),
     timestamp |-> toISOString(t)]

\* the sections a nav link can switch to
Sections == {"dashboard", "camera"}

\* if (!this.isStreaming) of captureMood, left out
CapturePreconditionNone(streaming) == TRUE

\* if (!this.isStreaming) { showCameraError(...); return; }
CapturePrecondition(streaming) == streaming

\* captureMood() up to canvas.toBlob(): the callback is left pending
captureMood ==
    /\ CapturePrecondition(isStreaming) => Len(captures) < MaxCaptures
    /\ IF CapturePrecondition(isStreaming)
       THEN /\ captures' = Append(captures, "toBlob")
            /\ UNCHANGED cameraErrors
       ELSE /\ cameraErrors' = cameraErrors \cup {"Please start the camera first"}
            /\ UNCHANGED captures
    /\ UNCHANGED << stream, isStreaming, acquiring, starts, live, timers,
                    framesSent, cameraUI, staleAcq, staleTimers >>
    /\ UNCHANGED << classifyReqs, submissions, notifications, unhandled,
                    currentSection, dashboardRefreshes >>
    /\ UNCHANGED << wsState, now >>
    /\ UNCHANGED aggVars
    /\ UNCHANGED msgVars
    /\ UNCHANGED envVars

\* the toBlob callback up to the await: fetch('/analyze-emotion') is issued
toBlobCallback(c) ==
    /\ c \in DOMAIN captures
    /\ captures[c] = "toBlob"
    /\ captures' = [captures EXCEPT ![c] = "classify"]
    /\ classifyReqs' = classifyReqs + 1
    /\ UNCHANGED << submissions, notifications, unhandled, currentSection,
                    dashboardRefreshes >>
    /\ UNCHANGED << wsState, now >>
    /\ UNCHANGED ctlVars
    /\ UNCHANGED aggVars
    /\ UNCHANGED msgVars
    /\ UNCHANGED envVars

\* the classify request is answered with response r, whatever its status:
\* the callback calls saveMoodEntry(data.emotion, data.confidence), which
\* issues fetch('/mood-entry')
classifyResponds(c, r) ==
    /\ c \in DOMAIN captures
    /\ captures[c] = "classify"
    /\ captures' = [captures EXCEPT ![c] = "save"]
    /\ submissions' = Append(submissions, MoodEntry(r.emotion, r.confidence, now))
    /\ UNCHANGED << classifyReqs, notifications, unhandled, currentSection,
                    dashboardRefreshes >>
    /\ UNCHANGED << wsState, now >>
    /\ UNCHANGED ctlVars
    /\ UNCHANGED aggVars
    /\ UNCHANGED msgVars
    /\ UNCHANGED envVars

\* the classify request fails (fetch rejects, or the body is not JSON): the
\* async callback of toBlob rejects and nothing handles it
classifyFails(c) ==
    /\ c \in DOMAIN captures
    /\ captures[c] = "classify"
    /\ captures' = [captures EXCEPT ![c] = "classifyFailed"]
    /\ unhandled' = unhandled + 1
    /\ UNCHANGED << classifyReqs, submissions, notifications, currentSection,
                    dashboardRefreshes >>
    /\ UNCHANGED << wsState, now >>
    /\ UNCHANGED ctlVars
    /\ UNCHANGED aggVars
    /\ UNCHANGED msgVars
    /\ UNCHANGED envVars

\* a saveMoodEntry that calls loadDashboard() without testing response.ok
\* and currentSection
saveRespondsAlwaysRefreshes(c, ok) ==
    /\ c \in DOMAIN captures
    /\ captures[c] = "save"
    /\ captures' = [captures EXCEPT ![c] = IF ok THEN "savedOk" ELSE "saveRejected"]
    /\ dashboardRefreshes' = dashboardRefreshes + 1
    /\ notifications' = Append(notifications, [type |-> "success", capture |-> c])
    /\ UNCHANGED << classifyReqs, submissions, unhandled, currentSection >>
    /\ UNCHANGED << wsState, now >>
    /\ UNCHANGED ctlVars
    /\ UNCHANGED aggVars
    /\ UNCHANGED msgVars
    /\ UNCHANGED envVars

\* the mood-entry request is answered with status ok or not: saveMoodEntry
\* refreshes the dashboard on ok, and the callback goes on to showNotification
saveResponds(c, ok) ==
    /\ c \in DOMAIN captures
    /\ captures[c] = "save"
    /\ captures' = [captures EXCEPT ![c] = IF ok THEN "savedOk" ELSE "saveRejected"]
    /\ dashboardRefreshes' =
           IF ok /\ currentSection = "dashboard"
           THEN dashboardRefreshes + 1 ELSE dashboardRefreshes
    /\ notifications' = Append(notifications, [type |-> "success", capture |-> c])
    /\ UNCHANGED << classifyReqs, submissions, unhandled, currentSection >>
    /\ UNCHANGED << wsState, now >>
    /\ UNCHANGED ctlVars
    /\ UNCHANGED aggVars
    /\ UNCHANGED msgVars
    /\ UNCHANGED envVars

\* a catch block of saveMoodEntry that posts the entry once more
saveFailsResubmits(c) ==
    /\ c \in DOMAIN captures
    /\ captures[c] = "save"
    /\ captures' = [captures EXCEPT ![c] = "saveError"]
    /\ submissions' = Append(submissions, submissions[Len(submissions)])
    /\ notifications' = Append(notifications, [type |-> "success", capture |-> c])
    /\ UNCHANGED << classifyReqs, unhandled, currentSection, dashboardRefreshes >>
    /\ UNCHANGED << wsState, now >>
    /\ UNCHANGED ctlVars
    /\ UNCHANGED aggVars
    /\ UNCHANGED msgVars
    /\ UNCHANGED envVars

\* the mood-entry request fails: the catch of saveMoodEntry logs, and the
\* callback goes on to showNotification
saveFails(c) ==
    /\ c \in DOMAIN captures
    /\ captures[c] = "save"
    /\ captures' = [captures EXCEPT ![c] = "saveError"]
    /\ notifications' = Append(notifications, [type |-> "success", capture |-> c])
    /\ UNCHANGED << classifyReqs, submissions, unhandled, currentSection,
                    dashboardRefreshes >>
    /\ UNCHANGED << wsState, now >>
    /\ UNCHANGED ctlVars
    /\ UNCHANGED aggVars
    /\ UNCHANGED msgVars
    /\ UNCHANGED envVars

\* MindWellApp.switchSection(sectionName) for a section of the page
switchSection(sectionName) ==
    /\ currentSection # sectionName
    /\ currentSection' = sectionName
    /\ UNCHANGED << captures, classifyReqs, submissions, notifications,
                    unhandled, dashboardRefreshes >>
    /\ UNCHANGED << wsState, now >>
    /\ UNCHANGED ctlVars
    /\ UNCHANGED aggVars
    /\ UNCHANGED msgVars
    /\ UNCHANGED envVars

\* the page has the #detected-emotion element; no message is handled in
\* the runs below
InitSession ==
    /\ Init
    /\ hasEmotionElement

\* the capture controller and the channel
NextCtl ==
    \/ startCamera
    \/ \E id \in 1..MaxStarts : getUserMediaResolve(id)
    \/ \E id \in 1..MaxStarts : getUserMediaReject(id)
    \/ stopCamera
    \/ \E stale \in BOOLEAN : sendFrame(stale)
    \/ wsOnOpen
    \/ wsOnClose

SpecCtl == InitSession /\ [][NextCtl]_vars

\* the one-shot capture path, with the calls that start and stop the camera
NextCapture ==
    \/ startCamera
    \/ \E id \in 1..MaxStarts : getUserMediaResolve(id)
    \/ \E id \in 1..MaxStarts : getUserMediaReject(id)
    \/ stopCamera
    \/ captureMood
    \/ \E c \in 1..MaxCaptures : toBlobCallback(c)
    \/ \E c \in 1..MaxCaptures, r \in Responses : classifyResponds(c, r)
    \/ \E c \in 1..MaxCaptures : classifyFails(c)
    \/ \E c \in 1..MaxCaptures, ok \in BOOLEAN : saveResponds(c, ok)
    \/ \E c \in 1..MaxCaptures : saveFails(c)
    \/ \E sectionName \in Sections : switchSection(sectionName)

SpecCapture == InitSession /\ [][NextCapture]_vars

\* the browser runs every callback it has queued, and the mood-entry request
\* is answered or fails; whether the classify request is ever answered is
\* not up to the program
SpecCaptureFair ==
    /\ SpecCapture
    /\ WF_vars(\E c \in 1..MaxCaptures : toBlobCallback(c))
    /\ WF_vars(\E c \in 1..MaxCaptures :
                   saveFails(c) \/ \E ok \in BOOLEAN : saveResponds(c, ok))

\* ------------------------------------------------------------------------
\* Properties
\* ------------------------------------------------------------------------
\* the last n elements of a sequence
LastN(s, n) == SubSeq(s, Len(s) - (IF Len(s) < n THEN Len(s) ELSE n) + 1, Len(s))

\* controller states of the specification, read off the fields
Idle == stream = NoStream /\ ~isStreaming /\ acquiring = {}
Acquiring == acquiring # {}
Streaming == isStreaming

\* C1: after any sequence of storeEmotion() calls the history buffer holds
\* at most 100 events, and they are exactly the last min(n, 100) recorded
\* events in arrival order (FIFO eviction).
C1_FifoLaw ==
    /\ Len(detectedEmotions) <= MaxHistory
    /\ detectedEmotions = LastN(recorded, MaxHistory)

\* C1 witness: 105 events were recorded, the buffer holds events #6..#105,
\* and the last evicted event differs from the oldest one kept.
C1_Witness ==
    /\ Len(recorded) = 105
    /\ detectedEmotions = SubSeq(recorded, 6, 105)
    /\ recorded[5] # recorded[6]

\* the events of a log that fall on the local calendar day of instant t
OnDayOf(log, t) ==
    { i \in DOMAIN log :
        (log[i].timestamp.date * DayLen + log[i].timestamp.time + TzOffset) \div DayLen
            = (t + TzOffset) \div DayLen }

\* C2 as stated: the per-label counts computed for today add up to the
\* number of events recorded today, also when more than 100 were recorded
\* today.
C2_DailySumIsRecordedToday ==
    SumCounts(todayCounts) = Cardinality(OnDayOf(recorded, now))

\* C2 amended: the per-label counts computed for today add up to the number
\* of events recorded today that are among the last 100 recorded events.
C2_DailySumIsBufferedToday ==
    SumCounts(todayCounts) = Cardinality(OnDayOf(LastN(recorded, MaxHistory), now))

\* C2 witness: more than 100 events, of two labels, were recorded today and
\* the counts add up to 100.
C2_Witness ==
    /\ Cardinality(OnDayOf(recorded, now)) > MaxHistory
    /\ Cardinality(DOMAIN todayCounts) = 2
    /\ SumCounts(todayCounts) = MaxHistory

\* C3: stopCamera() on an Idle controller changes nothing of the
\* controller, the device or the channel: an open WebSocket stays open.
C3_StopWhenIdleIsNoOp ==
    [][ (Idle /\ stopCamera) =>
            /\ UNCHANGED << stream, isStreaming, acquiring, live, timers >>
            /\ wsState' = wsState ]_vars

\* C4: startCamera() while Streaming or Acquiring is rejected without side
\* effects: no further getUserMedia() request, no second send loop, so at
\* most one send loop is ever active.
C4_StartWhenActiveRejected ==
    /\ [][ (startCamera /\ (Streaming \/ Acquiring)) =>
               UNCHANGED << acquiring, stream, isStreaming, live, timers >> ]_vars
    /\ [](timers <= 1)

\* C5: stopCamera() from Streaming or Acquiring leaves the controller not
\* streaming with the device released, and a getUserMedia() call that was
\* pending at a stopCamera() is a no-op when it settles.
C5_StopCancelsAcquisition ==
    [][ /\ (stopCamera /\ (Streaming \/ Acquiring)) =>
               (~isStreaming' /\ stream' = NoStream /\ stream \notin live')
        /\ \A id \in staleAcq :
               (id \in acquiring /\ id \notin acquiring') =>
                   UNCHANGED << isStreaming, stream, live >> ]_vars

\* C6: when the channel closes or errors while the controller is
\* Streaming, the controller leaves Streaming and the device is released.
C6_ChannelCloseStopsStreaming ==
    [][ (Streaming /\ wsState # "CLOSED" /\ wsState' = "CLOSED") =>
            (~isStreaming' /\ stream' = NoStream /\ live' = {}) ]_vars

\* C7: a startCamera() that succeeds after a stopCamera() or after a
\* channel closure opens the channel again when it is not open.
C7_StartReopensChannel ==
    [][ \A id \in 1..MaxStarts :
            (wsState \in {"CLOSING", "CLOSED"} /\ getUserMediaResolve(id)) =>
                wsState' \in {"CONNECTING", "OPEN"} ]_vars

\* C8: every inbound message that reached the browser was processed exactly
\* once: one append to the history and one recommendation lookup each.
C8_EveryMessageProcessedOnce ==
    /\ Len(recorded) = arrived
    /\ Len(lookups) = arrived

\* C9: a message whose label is a string outside the closed label set is
\* counted under the "unknown" bucket, the total of today grows by one, and
\* nothing is raised.
C9_UnknownLabelInFallbackBucket ==
    [][ \A m \in Msgs :
            ( /\ wsState = "OPEN"
              /\ wsOnMessage(m)
              /\ m.emotion.type = "string"
              /\ m.emotion.str \notin EmotionLabel ) =>
                LET before == updateTodayEmotions(detectedEmotions, now)
                IN  /\ CountOf(todayCounts', "unknown") = CountOf(before, "unknown") + 1
                    /\ SumCounts(todayCounts') = SumCounts(before) + 1
                    /\ uncaught' = uncaught ]_vars

\* C10: a message whose emotion field is missing or not a string is still
\* recorded (under the "unknown" bucket) and the handler raises nothing, so
\* the buffer afterwards is the buffer after one storeEmotion().
C10_MalformedStillRecorded ==
    [][ \A m \in Msgs :
            ( /\ wsState = "OPEN"
              /\ wsOnMessage(m)
              /\ m.emotion.type # "string" ) =>
                /\ uncaught' = uncaught
                /\ detectedEmotions' =
                       storeEmotion(detectedEmotions, m.emotion, m.confidence, now)
                /\ Len(recorded') = Len(recorded) + 1
                /\ CountOf(todayCounts', "unknown") >= 1 ]_vars

\* a step that shows the user a failure: a showCameraError message, or a
\* notification that is not a success notification
FailureNoticeRaised ==
    \/ cameraErrors' # cameraErrors
    \/ /\ Len(notifications') > Len(notifications)
       /\ notifications'[Len(notifications')].type # "success"

\* C11: captureMood() while the controller is not streaming shows the
\* "start the camera first" error and starts no capture: no classify
\* request and no mood-entry submission is ever sent for it.
C11_CaptureNeedsStreaming ==
    /\ [][ (captureMood /\ ~isStreaming) =>
               /\ "Please start the camera first" \in cameraErrors'
               /\ UNCHANGED << captures, classifyReqs, submissions >> ]_vars
    /\ [](classifyReqs <= Len(captures) /\ Len(submissions) <= classifyReqs)

\* C11 witness: the error was shown after a session was stopped, and no
\* request was sent.
C11_Witness ==
    /\ "Please start the camera first" \in cameraErrors
    /\ cameraUI = "stopped"
    /\ ~isStreaming
    /\ captures = << >>
    /\ classifyReqs = 0
    /\ submissions = << >>

\* C12: when the mood-entry submission fails (transport error or a status
\* that is not ok) the user is shown a failure, and no success notification.
C12_SaveFailureNotified ==
    [][ \A c \in 1..MaxCaptures :
            (saveFails(c) \/ saveResponds(c, FALSE)) =>
                (FailureNoticeRaised /\ notifications' = notifications) ]_vars

\* C13: when the classify request fails, the user is shown an error, no
\* mood entry is submitted and the request is not sent again.
C13_ClassifyFailureSurfaced ==
    [][ \A c \in 1..MaxCaptures :
            classifyFails(c) =>
                /\ FailureNoticeRaised
                /\ submissions' = submissions
                /\ classifyReqs' = classifyReqs ]_vars

\* C14: every stored confidence is within [0, 1] and every submitted
\* intensity is an integer in 0..100.
C14_ConfidenceClamped ==
    /\ \A i \in DOMAIN detectedEmotions :
           detectedEmotions[i].confidence \in 0..100
    /\ \A i \in DOMAIN submissions :
           /\ ~submissions[i].intensity.nan
           /\ submissions[i].intensity.val \in 0..100

\* C15: a frame is sent only by a call of sendFrame that finds the
\* controller streaming and the channel open; a tick that finds the channel
\* not open sends nothing.
C15_FramesOnlyWhenStreamingAndOpen ==
    /\ [][ framesSent' # framesSent =>
               (isStreaming' /\ wsState = "OPEN" /\ framesSent' = framesSent + 1) ]_vars
    /\ [][ \A stale \in BOOLEAN :
               (sendFrame(stale) /\ wsState # "OPEN") => framesSent' = framesSent ]_vars

\* C15 witness: a frame was sent, then the channel closed and the next tick
\* sent nothing.
C15_Witness ==
    /\ framesSent = 1
    /\ isStreaming
    /\ wsState = "CLOSED"
    /\ timers = 0

\* C16: while the controller is streaming a send loop is alive, whatever
\* the channel state was at the earlier ticks.
C16_LoopAliveWhileStreaming ==
    (isStreaming /\ stream # NoStream) => timers >= 1

\* C17: a timer that was pending at a stopCamera() never sends a frame and
\* is not rescheduled: whenever such a timer is pending, the condition to
\* send is false, also inside a session started after the stop.
C17_LoopDoesNotOutliveSession ==
    /\ [](staleTimers > 0 => ~(isStreaming /\ wsState = "OPEN"))
    /\ [][ sendFrame(TRUE) =>
               (framesSent' = framesSent /\ timers' = timers - 1) ]_vars

\* C17 witness: a session was started after a stop while a timer of the
\* stopped session is still pending.
C17_Witness ==
    /\ staleTimers > 0
    /\ isStreaming
    /\ stream # NoStream

\* C18: every MediaStream with live tracks is the one this.stream refers to.
C18_NoLeakedStream ==
    live \subseteq {stream}

\* C19: when getUserMedia() rejects, the controller is not streaming
\* afterwards, holds no stream, no acquired stream is live, no send loop is
\* started, the channel is left as it was, the error is shown, and no new
\* acquisition is requested.
C19_AcquisitionFailureHandled ==
    [][ \A id \in 1..MaxStarts :
            getUserMediaReject(id) =>
                /\ ~isStreaming'
                /\ stream' = NoStream
                /\ live' = {}
                /\ timers' = timers
                /\ framesSent' = framesSent
                /\ wsState' = wsState
                /\ "Unable to access camera" \in cameraErrors'
                /\ acquiring' = acquiring \ {id}
                /\ starts' = starts ]_vars

\* C20: no step opens a new channel, unless it is a step of startCamera().
C20_NoAutomaticReconnect ==
    [][ (wsState # "CONNECTING" /\ wsState' = "CONNECTING") =>
            (startCamera \/ \E id \in 1..MaxStarts : getUserMediaResolve(id)) ]_vars

\* C20 witness: the channel closed during a session and stays closed.
C20_Witness ==
    /\ wsState = "CLOSED"
    /\ isStreaming
    /\ framesSent > 0

\* the buffer entries of key k that were stored on the local calendar day of
\* instant t
StoredOnDayOf(buf, k, t) ==
    { i \in OnDayOf(buf, t) : buf[i].emotion.str = k }

\* C21: after every storeEmotion() the displayed daily counts are the tally
\* by label of exactly the buffer entries stored on the current calendar
\* day; entries of an earlier day are not counted.
C21_DailyCountsAreTodaysTally ==
    /\ \A k \in DOMAIN todayCounts :
           /\ todayCounts[k] >= 1
           /\ todayCounts[k] = Cardinality(StoredOnDayOf(detectedEmotions, k, now))
    /\ \A i \in OnDayOf(detectedEmotions, now) :
           detectedEmotions[i].emotion.str \in DOMAIN todayCounts

\* C21 witness: Happy and Sad were recorded on one day and Happy on the next
\* day; the counts of the second day are {Happy: 1}.
C21_Witness ==
    /\ Len(recorded) = 3
    /\ detectedEmotions = recorded
    /\ recorded[1].emotion = JsString("Happy")
    /\ recorded[2].emotion = JsString("Sad")
    /\ recorded[3].emotion = JsString("Happy")
    /\ OnDayOf(recorded, now) = {3}
    /\ recorded[1].timestamp # recorded[2].timestamp
    /\ todayCounts = [k \in {"Happy"} |-> 1]

\* positions of a capture: the classify request was issued; the mood entry
\* was submitted; the submission failed
Classified == {"classify", "classifyFailed", "save", "savedOk", "saveRejected", "saveError"}
Submitted == {"save", "savedOk", "saveRejected", "saveError"}
SubmissionFailed == {"saveRejected", "saveError"}

\* C22: every captureMood() issues at most one classify request and at most
\* one mood-entry submission, and a capture whose submission failed sends
\* nothing more.
C22_SingleAttempt ==
    /\ [](/\ classifyReqs <= Cardinality({ c \in DOMAIN captures : captures[c] \in Classified })
          /\ Len(submissions) <= Cardinality({ c \in DOMAIN captures : captures[c] \in Submitted }))
    /\ [][ \A c \in DOMAIN captures :
               /\ (captures[c] = "save" /\ captures'[c] \in SubmissionFailed) =>
                      UNCHANGED << submissions, classifyReqs >>
               /\ captures[c] \in SubmissionFailed => captures'[c] = captures[c] ]_vars

\* C22 witness: the submission of a capture failed; one classify request and
\* one submission were sent.
C22_Witness ==
    /\ Len(captures) = 1
    /\ captures[1] \in SubmissionFailed
    /\ classifyReqs = 1
    /\ Len(submissions) = 1

\* C23: loadDashboard() is called by the capture path in exactly the steps
\* in which a mood-entry submission is answered with a success status while
\* the dashboard is the current section.
C23_RefreshIffSavedOnDashboard ==
    [][ (dashboardRefreshes' # dashboardRefreshes) <=>
            (/\ currentSection = "dashboard"
             /\ \E c \in DOMAIN captures :
                    captures[c] = "save" /\ captures'[c] = "savedOk") ]_vars

\* C23 witness: an entry was saved while another section was shown and no
\* refresh was made.
C23_Witness ==
    /\ Len(captures) = 1
    /\ captures[1] = "savedOk"
    /\ currentSection = "camera"
    /\ dashboardRefreshes = 0
    /\ Len(notifications) = 1

\* C25: a success notification is shown only for a capture whose mood entry
\* was acknowledged with a success status.
C25_SuccessOnlyWhenPersisted ==
    \A i \in DOMAIN notifications :
        notifications[i].type = "success" =>
            captures[notifications[i].capture] = "savedOk"

\* C26: every submitted mood entry has a label and a confidence of a
\* successful classify response: no entry is submitted when the response
\* has an error status or no emotion/confidence.
C26_SubmitOnlyClassified ==
    [][ \A c \in DOMAIN captures, r \in Responses :
            (classifyResponds(c, r) /\ (~r.ok \/ r.emotion.type # "string" \/ ~r.confidence.defined))
                => submissions' = submissions ]_vars

\* positions in which a capture has ended, with success or with a failure
Ended == {"classifyFailed", "savedOk", "saveRejected", "saveError"}

\* C24: every captureMood() that passes the precondition ends, also when
\* the server never answers the classify request.
C24_CaptureTerminates ==
    \A c \in 1..MaxCaptures :
        (c \in DOMAIN captures) ~> (c \in DOMAIN captures /\ captures[c] \in Ended)

\* C27: when the last outstanding recommendation lookup resolves with
\* recommendations, the recommendations shown are those of the label of the
\* latest lookup, in whatever order the lookups resolved.
C27_LatestRecommendationsShown ==
    [][ \A i \in 1..MaxMsgs :
            (lookupResolves(i, TRUE) /\ pendingLookups' = {}) =>
                recommendations' = lookups[Len(lookups)] ]_vars

\* C28: in every reachable state isStreaming is true exactly when
\* this.stream refers to a stream.
C28_StreamingIffStreamHeld ==
    isStreaming <=> (stream # NoStream)

\* C28 witness: after two startCamera() calls and a stopCamera() that closed
\* the channel, the controller streams again and holds the one live stream.
C28_Witness ==
    /\ isStreaming
    /\ stream # NoStream
    /\ cameraUI = "started"
    /\ starts = 2
    /\ acquiring = {}
    /\ live = {stream}
    /\ wsState = "CLOSING"

====
